---- MODULE Spec2Model ----
(***************************************************************************)
(* Model of scheduler/limiter.go: MaxInFlightLimiter.  Producer goroutines *)
(* call Create; a single informer goroutine delivers OnAdd / OnUpdate /    *)
(* OnDelete.  Both sides share the inFlight map under the RWMutex mu, and  *)
(* the completions channel, whose capacity is maxInFlight.                 *)
(***************************************************************************)
EXTENDS Integers, Sequences, FiniteSets, TLC

\* ---------------------------------------------------------------- bounds
MaxLimit == 2        \* maxInFlight ranges over 0..MaxLimit
MaxRemovals == 2     \* the informer delivers terminal events until this many removals

Callers == {"p1", "p2"}
Uuids == {"A", "B", "C"}
Informer == "informer"
NoOne == "none"
NoJob == "-"

\* batchv1.JobConditionType values carried in job.Status.Conditions
JobComplete == "Complete"
JobFailed == "Failed"
JobSuspended == "Suspended"

\* the Status.Conditions lists the informer delivers
Conditions ==
    { <<>>, <<JobSuspended>>, <<JobComplete, JobSuspended>>,
      <<JobSuspended, JobFailed>> }

\* *batchv1.Job as far as the limiter reads it: Labels[api.UUIDLabel], Status.Conditions
Jobs == [uuid : Uuids, conditions : Conditions]

\* ------------------------------------------------------------------ state
VARIABLES
    MaxInFlight,   \* l.MaxInFlight
    inFlight,      \* l.inFlight, the set of keys of the map
    completions,   \* l.completions, the number of buffered tokens
    mu,            \* l.mu: who holds the write lock (NoOne when free)
    pc,            \* per caller: position inside Create
    job,           \* per caller: job.Uuid of the call in progress
    ctxDone,       \* per caller: ctx.Done() is closed
    ret,           \* per caller: what the last call returned ("none", "nil", "err")
    how,           \* per caller: which return statement the last call took
    took,          \* per caller: the current or last call received a token from completions
    gated,         \* per caller, until the size is read: the call began with the set at the limit
    rpc,           \* informer: "idle", or "send" when blocked in markComplete's send
    removed,       \* number of deletions from inFlight so far
    enqueued,      \* number of tokens sent on completions so far
    exceeded,      \* len(inFlight) has been above MaxInFlight at some point
    pristine,      \* nothing but OnAdd has run since NewLimiter
    replay         \* while pristine: per uuid, the conditions OnAdd was given

vars == << MaxInFlight, inFlight, completions, mu, pc, job, ctxDone, ret, how,
           took, gated, rpc, removed, enqueued, exceeded, pristine, replay >>

callerVars == << pc, job, ctxDone, ret, how, took, gated >>

NotSeen == <<"unseen">>
Conflict == <<"conflict">>
NoReplay == [u \in Uuids |-> NotSeen]

\* ---------------------------------------------------------------- helpers
\* isFinished: the loop over job.Status.Conditions
RECURSIVE isFinishedFrom(_, _, _)
isFinishedFrom(conds, i, finished) ==
    IF i > Len(conds) THEN finished
    ELSE isFinishedFrom(conds, i + 1,
                        IF conds[i] \in {JobComplete, JobFailed} THEN TRUE ELSE finished)

\* variant of isFinished: the last condition alone decides
isFinishedLast(j) ==
    /\ Len(j.conditions) > 0
    /\ j.conditions[Len(j.conditions)] \in {JobComplete, JobFailed}

isFinished(j) == isFinishedFrom(j.conditions, 1, FALSE)

\* cap(l.completions): make(chan struct{}, maxInFlight)
completionsCap == MaxInFlight

\* variant of atLimit: > where the code has >=
atLimitStrict(n) == MaxInFlight > 0 /\ n > MaxInFlight

\* the condition of Create's if: l.MaxInFlight > 0 && inFlight >= l.MaxInFlight
atLimit(n) == MaxInFlight > 0 /\ n >= MaxInFlight

\* the lookup  _, found := l.inFlight[uuid]
found(u) == u \in inFlight

Over(s) == MaxInFlight > 0 /\ Cardinality(s) > MaxInFlight

\* ------------------------------------------------------------------- Init
\* NewLimiter
Init ==
    /\ MaxInFlight \in 0..MaxLimit
    /\ inFlight = {}
    /\ completions = 0
    /\ mu = NoOne
    /\ pc = [p \in Callers |-> "idle"]
    /\ job = [p \in Callers |-> NoJob]
    /\ ctxDone = [p \in Callers |-> FALSE]
    /\ ret = [p \in Callers |-> "none"]
    /\ how = [p \in Callers |-> "none"]
    /\ took = [p \in Callers |-> FALSE]
    /\ gated = [p \in Callers |-> FALSE]
    /\ rpc = "idle"
    /\ removed = 0
    /\ enqueued = 0
    /\ exceeded = FALSE
    /\ pristine = TRUE
    /\ replay = NoReplay

\* ----------------------------------------------------------------- Create
\* a caller's return statement: the call is over
Return(p, value, stmt) ==
    /\ pc' = [pc EXCEPT ![p] = "idle"]
    /\ job' = [job EXCEPT ![p] = NoJob]
    /\ ctxDone' = [ctxDone EXCEPT ![p] = FALSE]
    /\ ret' = [ret EXCEPT ![p] = value]
    /\ how' = [how EXCEPT ![p] = stmt]

\* a producer calls l.Create(ctx, job); ctx may already be cancelled
CreateCall(p, u, cancelled) ==
    /\ pc[p] = "idle"
    /\ pc' = [pc EXCEPT ![p] = "read"]
    /\ job' = [job EXCEPT ![p] = u]
    /\ ctxDone' = [ctxDone EXCEPT ![p] = cancelled]
    /\ ret' = [ret EXCEPT ![p] = "none"]
    /\ how' = [how EXCEPT ![p] = "none"]
    /\ took' = [took EXCEPT ![p] = FALSE]
    /\ gated' = [gated EXCEPT ![p] =
                   MaxInFlight > 0 /\ Cardinality(inFlight) >= MaxInFlight]
    /\ pristine' = FALSE
    /\ replay' = NoReplay
    /\ UNCHANGED << MaxInFlight, inFlight, completions, mu, rpc, removed,
                    enqueued, exceeded >>

\* the caller's context is cancelled while the call is in progress
Cancel(p) ==
    /\ pc[p] # "idle"
    /\ ~ctxDone[p]
    /\ ctxDone' = [ctxDone EXCEPT ![p] = TRUE]
    /\ UNCHANGED << MaxInFlight, inFlight, completions, mu, pc, job, ret, how,
                    took, gated, rpc, removed, enqueued, exceeded, pristine,
                    replay >>

\* select { case <-ctx.Done(): return nil; default: return l.add(ctx, job) }
\* (the call of add: its first statement, l.mu.Lock(), is the step add below)
CreateSelect(p) ==
    IF ctxDone[p]
      THEN Return(p, "nil", "cancelled")
      ELSE /\ pc' = [pc EXCEPT ![p] = "add"]
           /\ UNCHANGED << job, ctxDone, ret, how >>

\* l.mu.RLock(); inFlight := len(l.inFlight); l.mu.RUnlock(); then the if:
\* at the limit the caller goes on to receive, otherwise straight to the select
CreateRead(p) ==
    /\ pc[p] = "read"
    /\ mu = NoOne
    /\ IF atLimit(Cardinality(inFlight))
         THEN /\ pc' = [pc EXCEPT ![p] = "wait"]
              /\ UNCHANGED << job, ctxDone, ret, how >>
         ELSE CreateSelect(p)
    /\ gated' = [gated EXCEPT ![p] = FALSE]
    /\ UNCHANGED << MaxInFlight, inFlight, completions, mu, took, rpc, removed,
                    enqueued, exceeded, pristine, replay >>

\* <-l.completions, then the select
CreateWait(p) ==
    /\ pc[p] = "wait"
    /\ completions > 0
    /\ completions' = completions - 1
    /\ took' = [took EXCEPT ![p] = TRUE]
    /\ CreateSelect(p)
    /\ UNCHANGED << MaxInFlight, inFlight, mu, gated, rpc, removed, enqueued,
                    exceeded, pristine, replay >>

\* variant of add: the duplicate check left out
addNoCheck(p) ==
    /\ pc[p] = "add"
    /\ mu = NoOne
    /\ pc' = [pc EXCEPT ![p] = "launch"]
    /\ mu' = p
    /\ UNCHANGED << MaxInFlight, inFlight, completions, job, ctxDone, ret, how,
                    took, gated, rpc, removed, enqueued, exceeded, pristine,
                    replay >>

\* variant of add: the check and the launch without taking the lock
addUnlocked(p) ==
    /\ pc[p] = "add"
    /\ IF found(job[p])
         THEN Return(p, "nil", "duplicate")
         ELSE /\ pc' = [pc EXCEPT ![p] = "launch"]
              /\ UNCHANGED << job, ctxDone, ret, how >>
    /\ UNCHANGED << MaxInFlight, inFlight, completions, mu, took, gated, rpc,
                    removed, enqueued, exceeded, pristine, replay >>

\* add: l.mu.Lock(); the duplicate check
add(p) ==
    /\ pc[p] = "add"
    /\ mu = NoOne
    /\ IF found(job[p])
         THEN /\ Return(p, "nil", "duplicate")
              /\ mu' = NoOne
         ELSE /\ pc' = [pc EXCEPT ![p] = "launch"]
              /\ mu' = p
              /\ UNCHANGED << job, ctxDone, ret, how >>
    /\ UNCHANGED << MaxInFlight, inFlight, completions, took, gated, rpc,
                    removed, enqueued, exceeded, pristine, replay >>

\* variant of addCreate: the identifier is recorded whether or not the
\* downstream Create succeeded
addCreateRecordsAlways(p, ok) ==
    /\ pc[p] = "launch"
    /\ mu = p
    /\ inFlight' = inFlight \cup {job[p]}
    /\ IF ok THEN Return(p, "nil", "launched") ELSE Return(p, "err", "failed")
    /\ exceeded' = (exceeded \/ Over(inFlight'))
    /\ mu' = NoOne
    /\ UNCHANGED << MaxInFlight, completions, took, gated, rpc, removed,
                    enqueued, pristine, replay >>

\* variant of addCreate: a failed launch puts a token into the channel
addCreateReleases(p, ok) ==
    /\ pc[p] = "launch"
    /\ mu = p
    /\ IF ok
         THEN /\ inFlight' = inFlight \cup {job[p]}
              /\ Return(p, "nil", "launched")
              /\ UNCHANGED << completions, enqueued >>
         ELSE /\ inFlight' = inFlight
              /\ Return(p, "err", "failed")
              /\ IF completions < completionsCap
                   THEN /\ completions' = completions + 1
                        /\ enqueued' = enqueued + 1
                   ELSE UNCHANGED << completions, enqueued >>
    /\ exceeded' = (exceeded \/ Over(inFlight'))
    /\ mu' = NoOne
    /\ UNCHANGED << MaxInFlight, took, gated, rpc, removed, pristine, replay >>

\* add: l.scheduler.Create(ctx, job), the insertion, and the deferred Unlock
addCreate(p, ok) ==
    /\ pc[p] = "launch"
    /\ mu = p
    /\ IF ok
         THEN /\ inFlight' = inFlight \cup {job[p]}
              /\ Return(p, "nil", "launched")
         ELSE /\ inFlight' = inFlight
              /\ Return(p, "err", "failed")
    /\ exceeded' = (exceeded \/ Over(inFlight'))
    /\ mu' = NoOne
    /\ UNCHANGED << MaxInFlight, completions, took, gated, rpc, removed,
                    enqueued, pristine, replay >>

\* --------------------------------------------------------------- informer
\* variant of markComplete: the send without the presence check
markCompleteUnguarded(j) ==
    /\ inFlight' = inFlight \ {j.uuid}
    /\ removed' = IF found(j.uuid) THEN removed + 1 ELSE removed
    /\ IF completions < completionsCap
         THEN /\ completions' = completions + 1
              /\ enqueued' = enqueued + 1
              /\ rpc' = "idle"
              /\ mu' = NoOne
         ELSE /\ completions' = completions
              /\ enqueued' = enqueued
              /\ rpc' = "send"
              /\ mu' = Informer

\* variant of markComplete: the delete without the send
markCompleteNoSend(j) ==
    /\ inFlight' = inFlight \ {j.uuid}
    /\ removed' = IF found(j.uuid) THEN removed + 1 ELSE removed
    /\ UNCHANGED << completions, enqueued, rpc, mu >>

\* markComplete, called with l.mu held: delete, then the channel send, which
\* blocks (with the lock held) while the buffer is full
markComplete(j) ==
    IF found(j.uuid)
      THEN /\ inFlight' = inFlight \ {j.uuid}
           /\ removed' = removed + 1
           /\ IF completions < completionsCap
                THEN /\ completions' = completions + 1
                     /\ enqueued' = enqueued + 1
                     /\ rpc' = "idle"
                     /\ mu' = NoOne
                ELSE /\ completions' = completions
                     /\ enqueued' = enqueued
                     /\ rpc' = "send"
                     /\ mu' = Informer
      ELSE UNCHANGED << inFlight, removed, completions, enqueued, rpc, mu >>

\* the blocked send of markComplete goes through once the buffer has room;
\* then the handler returns and unlocks
markCompleteSend ==
    /\ rpc = "send"
    /\ completions < completionsCap
    /\ completions' = completions + 1
    /\ enqueued' = enqueued + 1
    /\ rpc' = "idle"
    /\ mu' = NoOne
    /\ UNCHANGED << MaxInFlight, inFlight, callerVars, removed, exceeded,
                    pristine, replay >>

\* the insertion OnAdd and OnUpdate share
track(u) ==
    IF ~found(u) THEN inFlight' = inFlight \cup {u} ELSE inFlight' = inFlight

OnAdd(j) ==
    /\ rpc = "idle"
    /\ mu = NoOne
    /\ IF ~isFinished(j) THEN track(j.uuid) ELSE inFlight' = inFlight
    /\ exceeded' = (exceeded \/ Over(inFlight'))
    /\ replay' = IF pristine
                   THEN [replay EXCEPT ![j.uuid] =
                           IF @ \in {NotSeen, j.conditions}
                             THEN j.conditions ELSE Conflict]
                   ELSE replay
    /\ UNCHANGED << MaxInFlight, completions, mu, callerVars, rpc, removed,
                    enqueued, pristine >>

OnUpdate(old, j) ==
    /\ rpc = "idle"
    /\ mu = NoOne
    /\ removed < MaxRemovals
    /\ IF isFinished(j)
         THEN markComplete(j)
         ELSE /\ track(j.uuid)
              /\ UNCHANGED << removed, completions, enqueued, rpc, mu >>
    /\ exceeded' = (exceeded \/ Over(inFlight'))
    /\ pristine' = FALSE
    /\ replay' = NoReplay
    /\ UNCHANGED << MaxInFlight, callerVars >>

OnDelete(j) ==
    /\ rpc = "idle"
    /\ mu = NoOne
    /\ removed < MaxRemovals
    /\ markComplete(j)
    /\ pristine' = FALSE
    /\ replay' = NoReplay
    /\ UNCHANGED << MaxInFlight, callerVars, exceeded >>

\* ------------------------------------------------------------------- Next
\* the old object of an update is the same Job at an earlier status
OldConditions == { <<>>, <<JobComplete>> }

Next ==
    \/ \E p \in Callers, u \in Uuids, c \in BOOLEAN : CreateCall(p, u, c)
    \/ \E p \in Callers : Cancel(p)
    \/ \E p \in Callers : CreateRead(p)
    \/ \E p \in Callers : CreateWait(p)
    \/ \E p \in Callers : add(p)
    \/ \E p \in Callers, ok \in BOOLEAN : addCreate(p, ok)
    \/ \E j \in Jobs : OnAdd(j)
    \/ \E j \in Jobs, oc \in OldConditions :
          OnUpdate([uuid |-> j.uuid, conditions |-> oc], j)
    \/ \E j \in Jobs : OnDelete(j)
    \/ markCompleteSend

Spec == Init /\ [][Next]_vars

\* ------------------------------------------------- further specifications
\* One producer call at a time, and an informer that only reports terminal
\* transitions (terminal OnUpdate, OnDelete): InFlightSet is filled by Create alone.
SeqCreateCall(p, u, cancelled) ==
    /\ \A q \in Callers : pc[q] = "idle"
    /\ CreateCall(p, u, cancelled)

SeqOnUpdate(old, j) ==
    /\ isFinished(j)
    /\ OnUpdate(old, j)

NextSeq ==
    \/ \E p \in Callers, u \in Uuids, c \in BOOLEAN : SeqCreateCall(p, u, c)
    \/ \E p \in Callers : Cancel(p)
    \/ \E p \in Callers : CreateRead(p)
    \/ \E p \in Callers : CreateWait(p)
    \/ \E p \in Callers : add(p)
    \/ \E p \in Callers, ok \in BOOLEAN : addCreate(p, ok)
    \/ \E j \in Jobs, oc \in OldConditions :
          SeqOnUpdate([uuid |-> j.uuid, conditions |-> oc], j)
    \/ \E j \in Jobs : OnDelete(j)
    \/ markCompleteSend

SpecSeq == Init /\ [][NextSeq]_vars

\* The Go scheduler runs every goroutine that can take a step: a producer that
\* is not blocked on the lock or on the channel goes on.  The informer's
\* notifications are the environment's and carry no fairness.
CallerStep(p) ==
    \/ CreateRead(p)
    \/ CreateWait(p)
    \/ add(p)
    \/ \E ok \in BOOLEAN : addCreate(p, ok)

FairSpec == Spec /\ \A p \in Callers : WF_vars(CallerStep(p))

\* ----------------------------------------------------------------- claims
InFlightLen == Cardinality(inFlight)

\* C1: the downstream scheduler's Create is never invoked for an identifier
\* that is in InFlightSet at the moment of the invocation (a caller is about
\* to invoke it exactly when it is at "launch"), and a call that found its
\* identifier in the set returned nil.
IdempotentAdmission ==
    \A p \in Callers :
        /\ pc[p] = "launch" => job[p] \notin inFlight
        /\ how[p] = "duplicate" => ret[p] = "nil"

\* two calls carried the same identifier: one is launching it under the lock
\* while the other waits for the lock in add
IdempotentAdmissionWitness ==
    \E p, q \in Callers :
        /\ p # q
        /\ pc[p] = "launch" /\ pc[q] = "add" /\ job[p] = job[q]
        /\ how[p] = "none"

\* C2: with MaxInFlight > 0, as long as no terminal transition has been
\* reconciled (removed = 0), a call that began with InFlightSet at the limit,
\* and any call that is waiting for a token, neither reaches add (so it
\* launches nothing) nor returns: every step leaves it reading or waiting.
CapacityThrottling ==
    [][\A p \in Callers :
          ((gated[p] \/ pc[p] = "wait") /\ removed' = 0)
              => pc'[p] \in {"read", "wait"}]_vars

\* InFlightSet filled to the limit, the last identifier by an admission, no
\* removal, and a further live call for a new identifier is waiting
CapacityThrottlingWitness ==
    \E p \in Callers :
        /\ MaxInFlight > 0 /\ InFlightLen = MaxInFlight
        /\ \E q \in Callers : how[q] = "launched"
        /\ removed = 0 /\ completions = 0
        /\ pc[p] = "wait" /\ ~ctxDone[p] /\ job[p] \notin inFlight

\* C3: with MaxInFlight > 0, one call at a time and no insertion by the
\* informer, InFlightSet never holds more than MaxInFlight identifiers.
NoOverAdmission == MaxInFlight > 0 => InFlightLen <= MaxInFlight

\* C4: with MaxInFlight > 0, as long as InFlightSet has never held more than
\* MaxInFlight identifiers, no handler is blocked on the channel send (which
\* it does with the lock held).
ReconcilerNeverBlocks ==
    (MaxInFlight > 0 /\ ~exceeded) => (rpc # "send" /\ mu # Informer)

\* C5: with MaxInFlight = 0 nothing ever blocks: no handler is stuck in the
\* send (holding the lock every call needs) and no caller waits for a token.
UnlimitedNeverBlocks ==
    MaxInFlight = 0 =>
        /\ rpc # "send"
        /\ \A p \in Callers : pc[p] # "wait"

\* C6: a call that is waiting for a token and whose context is cancelled
\* returns without a token having to arrive: whatever the channel holds, the
\* caller's next step is possible.
CancellationUnblocks ==
    \A p \in Callers : (pc[p] = "wait" /\ ctxDone[p]) => ENABLED CallerStep(p)

\* C7: a call that returned nil at the ctx.Done() branch took no token from
\* the CompletionSignal channel.
CancellationIsNoOp ==
    \A p \in Callers : how[p] = "cancelled" => ~took[p]

\* the terminal-state predicate of the specification: the conditions include
\* a completed or a failed one
HasTerminalCondition(conds) ==
    \E i \in DOMAIN conds : conds[i] = JobComplete \/ conds[i] = JobFailed

ReplayedLive ==
    { u \in Uuids : replay[u] # NotSeen /\ ~HasTerminalCondition(replay[u]) }

\* C8: as long as only OnAdd has run since construction, each identifier
\* delivered with one object (in any order, redelivered any number of times),
\* InFlightSet is exactly the set of identifiers whose object is non-terminal,
\* and no token has been enqueued.
StartupReplay ==
    (pristine /\ \A u \in Uuids : replay[u] # Conflict) =>
        /\ inFlight = ReplayedLive
        /\ InFlightLen = Cardinality(ReplayedLive)
        /\ completions = 0 /\ enqueued = 0 /\ removed = 0

\* all three objects replayed: one live, two terminal (one of them with a
\* non-terminal condition after the terminal one)
StartupReplayWitness ==
    /\ pristine
    /\ replay["A"] = <<JobSuspended>>
    /\ replay["B"] = <<JobComplete, JobSuspended>>
    /\ replay["C"] = <<JobSuspended, JobFailed>>
    /\ inFlight = {"A"}

\* C9: exactly one token per removal: the number of tokens enqueued so far
\* equals the number of identifiers removed from InFlightSet so far.  (A
\* handler that is not held up deletes and sends in one step of the model, so
\* the two counts differ only where the send of a removal is blocked.)
OneSignalPerTransition == enqueued = removed

\* the state of a caller that never called Create
NeverCalled(p) == pc[p] = "idle" /\ how[p] = "none"

\* the informer reconciles a terminal notification (OnDelete, or OnUpdate with
\* a terminal new object) for an identifier that is not in InFlightSet
UntrackedTerminalStep(j) ==
    /\ j.uuid \notin inFlight
    /\ \/ OnDelete(j)
       \/ \E oc \in OldConditions :
             isFinished(j) /\ OnUpdate([uuid |-> j.uuid, conditions |-> oc], j)

\* C10: OnDelete, or OnUpdate with a terminal new object, for an identifier
\* that is not in InFlightSet leaves the set and the channel as they are: no
\* token is enqueued, nothing is removed, the handler does not block.  (In no
\* state can such a notification be reconciled with any of them changing.)
UntrackedTerminalSafety ==
    \A j \in Jobs :
        ~ENABLED (/\ UntrackedTerminalStep(j)
                  /\ ~UNCHANGED << inFlight, completions, enqueued, removed,
                                   rpc, mu >>)

\* a terminal notification was reconciled (nothing but OnUpdate and OnDelete
\* ends the replay when no producer has called) and it removed nothing
UntrackedTerminalSafetyWitness ==
    /\ ~pristine
    /\ \A p \in Callers : NeverCalled(p)
    /\ inFlight = {}
    /\ removed = 0 /\ enqueued = 0 /\ completions = 0

\* C11: with MaxInFlight > 0, while a call with a live context for an
\* identifier that is not in InFlightSet is blocked in the capacity wait, the
\* call that receives a token goes on to add, where it launches its job and
\* inserts its identifier: no call leaves the wait by returning.
TerminalTransitionWakes ==
    [][\A q \in Callers :
          (/\ MaxInFlight > 0
           /\ \E p \in Callers :
                 pc[p] = "wait" /\ ~ctxDone[p] /\ job[p] \notin inFlight
           /\ pc[q] = "wait" /\ pc'[q] # "wait")
              => pc'[q] = "add"]_vars

\* C12: a call returns a non-nil error exactly when the downstream Create
\* failed; duplicate and cancelled calls return nil; and the step in which the
\* downstream Create fails leaves InFlightSet as it was, the call's identifier
\* absent from it (so add's check lets a later call for it through to Create).
LaunchFailureUntracked ==
    /\ [](\A p \in Callers :
             /\ ret[p] = "err" <=> how[p] = "failed"
             /\ how[p] \in {"duplicate", "cancelled"} => ret[p] = "nil")
    /\ [][\A p \in Callers :
             (pc[p] = "launch" /\ how'[p] = "failed")
                 => (inFlight' = inFlight /\ job[p] \notin inFlight')]_vars

\* a call got the scheduler's error back, nothing is tracked, and the other
\* producer is launching a Job (a first attempt: nothing is in InFlightSet)
LaunchFailureUntrackedWitness ==
    \E p, q \in Callers :
        /\ how[p] = "failed" /\ ret[p] = "err"
        /\ inFlight = {} /\ removed = 0
        /\ pc[q] = "launch"

\* no producer but p is inside a call and no handler is inside markComplete
Quiescent(p) ==
    /\ rpc = "idle"
    /\ \A q \in Callers \ {p} : pc[q] = "idle"

\* C13: with MaxInFlight > 0, a call with a live context that waits while
\* InFlightSet is below the limit is not left without a token: when nothing
\* else is in progress (so that the set stays below the limit and no token is
\* on its way), the channel holds a token for it to receive.
NoStarvationBelowLimit ==
    \A p \in Callers :
        (/\ MaxInFlight > 0
         /\ pc[p] = "wait" /\ ~ctxDone[p]
         /\ InFlightLen < MaxInFlight
         /\ Quiescent(p))
            => completions > 0

\* the informer reconciles an OnAdd or an OnUpdate that reports j
ReportedStep(j) ==
    \/ OnAdd(j)
    \/ \E oc \in OldConditions :
          OnUpdate([uuid |-> j.uuid, conditions |-> oc], j)

\* C14: right after OnAdd or OnUpdate has processed an object, its identifier
\* is in InFlightSet exactly if the object carries no completed or failed
\* condition, and right after OnDelete it is not in the set.
MirrorsLastStatus ==
    [][\A j \in Jobs :
          /\ ReportedStep(j) =>
                (HasTerminalCondition(j.conditions) <=> j.uuid \notin inFlight')
          /\ OnDelete(j) => j.uuid \notin inFlight']_vars

\* the terminal transition of the specification for identifier u: if tracked,
\* remove it and enqueue one token; if untracked, nothing
TerminalTransition(u) ==
    IF u \in inFlight
      THEN /\ inFlight' = inFlight \ {u}
           /\ completions' = completions + 1
           /\ enqueued' = enqueued + 1
      ELSE UNCHANGED << inFlight, completions, enqueued >>

\* C15: whatever the old object, OnUpdate with a terminal new object performs
\* the terminal transition for its identifier, and with a non-terminal one it
\* leaves the identifier in InFlightSet (inserted if it was not there) and
\* enqueues nothing; OnDelete performs the terminal transition whatever the
\* object's conditions.
UpdateDependsOnNewObject ==
    [][\A j \in Jobs :
          /\ \A oc \in OldConditions :
                OnUpdate([uuid |-> j.uuid, conditions |-> oc], j) =>
                    IF HasTerminalCondition(j.conditions)
                      THEN TerminalTransition(j.uuid)
                      ELSE /\ inFlight' = inFlight \cup {j.uuid}
                           /\ UNCHANGED << completions, enqueued >>
          /\ OnDelete(j) => TerminalTransition(j.uuid)]_vars

\* C16: a call that reads InFlightSet below the limit (or with no limit), and
\* a call that receives its token, goes on to add whatever its context: the
\* only step in which a call may return on cancellation is the wait itself.
OnlyWaitCancellable ==
    [][\A p \in Callers :
          /\ (pc[p] = "read" /\ pc'[p] # "read") => pc'[p] \in {"wait", "add"}
          /\ (pc[p] = "wait" /\ ~took[p] /\ took'[p]) => pc'[p] = "add"]_vars

\* C17: a call that returned the scheduler's error took no token from the
\* CompletionSignal channel.
FailedLaunchKeepsToken ==
    \A p \in Callers : how[p] = "failed" => ~took[p]

\* C18: while a producer is at the downstream Create it holds the exclusive
\* lock (taken with the duplicate check, released after the insertion): no
\* other producer is at the downstream Create, none can read the size of
\* InFlightSet or enter add, and no handler can run or is inside markComplete.
LaunchCriticalSection ==
    \A p \in Callers :
        pc[p] = "launch" =>
            /\ mu = p
            /\ rpc = "idle"
            /\ \A q \in Callers \ {p} :
                  /\ pc[q] # "launch"
                  /\ ~ENABLED (CreateRead(q) \/ add(q))
            /\ ~ENABLED (\E j \in Jobs : ReportedStep(j) \/ OnDelete(j))
            /\ ~ENABLED markCompleteSend

\* a launch is in progress while the other producer, with another Job, is
\* held at the read of the size of InFlightSet
LaunchCriticalSectionWitness ==
    \E p, q \in Callers :
        /\ pc[p] = "launch" /\ pc[q] = "read"
        /\ job[p] # job[q] /\ job[q] \notin inFlight

\* C19: a step of a producer's call (the steps that change a producer's
\* variables) removes nothing from InFlightSet, enqueues no token and adds at
\* most the identifier the call is launching; InFlightSet shrinks and tokens
\* are produced only in steps of markComplete (a removal is counted, or the
\* blocked send goes through), which OnUpdate and OnDelete alone call.
OnlyReconcilerReleases ==
    [][/\ callerVars' # callerVars =>
             /\ inFlight \subseteq inFlight'
             /\ enqueued' = enqueued /\ removed' = removed
             /\ completions' <= completions
             /\ \A u \in inFlight' \ inFlight :
                   \E p \in Callers :
                       pc[p] = "launch" /\ job[p] = u /\ how'[p] = "launched"
       /\ (\/ ~(inFlight \subseteq inFlight')
           \/ enqueued' # enqueued
           \/ completions' > completions) =>
             /\ callerVars' = callerVars
             /\ removed' = removed + 1 \/ rpc = "send"]_vars

\* calls have ended in a launch and in a failed launch, and a terminal
\* transition has removed an identifier and enqueued its token
OnlyReconcilerReleasesWitness ==
    \E p, q \in Callers :
        /\ how[p] = "launched" /\ how[q] = "failed"
        /\ removed = 1 /\ enqueued = 1

\* C20: with MaxInFlight > 0, while a producer that read the size at the limit
\* has not yet received (it is at the receive, and no other producer is), no
\* token leaves the channel, and a terminal transition reconciled meanwhile
\* leaves a token in the channel: the producer's receive (possible whenever
\* the channel holds a token) finds it.
NoLostWakeup ==
    [][\A p \in Callers :
          (/\ MaxInFlight > 0
           /\ pc[p] = "wait" /\ pc'[p] = "wait"
           /\ \A q \in Callers \ {p} : pc[q] # "wait")
              => /\ completions' >= completions
                 /\ removed' > removed => completions' > 0]_vars

\* the producer read the size at the limit and is not yet receiving; the one
\* terminal transition so far came after that read (the set is below the
\* limit now) and its token is in the channel
NoLostWakeupWitness ==
    \E p \in Callers :
        /\ MaxInFlight > 0 /\ pc[p] = "wait" /\ ~took[p]
        /\ InFlightLen < MaxInFlight
        /\ removed = 1 /\ enqueued = 1 /\ completions = 1
        /\ \A q \in Callers \ {p} : NeverCalled(q)

====
